---- MODULE Spec2Model ----
(***************************************************************************)
(* GeographicLib::ECEF: conversion between geodetic coordinates            *)
(* (lat, lon, h) and earth centred, earth fixed coordinates (x, y, z) on   *)
(* an ellipsoid of revolution (src/ECEF.hpp).                              *)
(*                                                                         *)
(* Numbers.  The code computes in double; the model computes in exact      *)
(* rational arithmetic, a number being a pair <<n, d>> in lowest terms     *)
(* with d >= 0.  d = 0 is a non-finite value (a division by zero, or the   *)
(* square root of a number that has no rational root), and it propagates   *)
(* through every operation as NaN and infinity do.  Round-off is therefore *)
(* idealised to zero; the tolerance of a claim that speaks of round-off is *)
(* stated explicitly where the code itself approximates (beyond maxrad).   *)
(*                                                                         *)
(* Angles.  An angle is the pair <<sin, cos>> of its sine and cosine, so   *)
(* the angles of the model are those whose sine and cosine are rational    *)
(* (0, +-90 and 180 degrees and the angles of Pythagorean triples).        *)
(***************************************************************************)
EXTENDS Integers, Sequences, FiniteSets, TLC

----------------------------------------------------------------------------
(* Exact rational arithmetic *)

IAbs(n) == IF n < 0 THEN -n ELSE n

RECURSIVE Gcd(_, _)
Gcd(m, n) == IF n = 0 THEN m ELSE Gcd(n, m % n)

\* <<n, d>> in lowest terms, d >= 0; <<0, 0>> is NaN, <<+-1, 0>> is +-infinity
Q(n, d) ==
    LET g == Gcd(IAbs(n), IAbs(d))
    IN  IF g = 0 THEN <<0, 0>>
        ELSE IF d < 0 THEN <<(-n) \div g, (-d) \div g>>
        ELSE <<n \div g, d \div g>>

Z(n) == <<n, 1>>
NaN == <<0, 0>>

IsFinite(q) == q[2] # 0

RAdd(p, q) == IF p[2] = 0 \/ q[2] = 0
              THEN (IF p = q THEN p ELSE IF p[2] # 0 THEN q
                    ELSE IF q[2] # 0 THEN p ELSE NaN)
              ELSE LET g == Gcd(p[2], q[2])
                   IN  Q(p[1] * (q[2] \div g) + q[1] * (p[2] \div g),
                         (p[2] \div g) * q[2])
RNeg(p) == <<-p[1], p[2]>>
RSub(p, q) == RAdd(p, RNeg(q))
RMul(p, q) ==
    LET g == Gcd(IAbs(p[1]), q[2])
        k == Gcd(IAbs(q[1]), p[2])
    IN  IF g = 0 \/ k = 0 THEN Q(p[1] * q[1], p[2] * q[2])
        ELSE Q((p[1] \div g) * (q[1] \div k), (p[2] \div k) * (q[2] \div g))
RInv(q) == IF q[1] < 0 THEN <<-q[2], -q[1]>> ELSE <<q[2], q[1]>>
RDiv(p, q) == RMul(p, RInv(q))
RAbs(p) == <<IAbs(p[1]), p[2]>>
RSign(p) == IF p[1] > 0 THEN 1 ELSE IF p[1] < 0 THEN -1 ELSE 0
\* comparisons; false when either side is NaN, as in IEEE arithmetic
RLt(p, q) == /\ p # NaN /\ q # NaN /\ p # q
             /\ IF p[2] = 0 THEN p[1] < 0
                ELSE IF q[2] = 0 THEN q[1] > 0
                ELSE LET g == Gcd(p[2], q[2])
                     IN  p[1] * (q[2] \div g) < q[1] * (p[2] \div g)
RLe(p, q) == p # NaN /\ q # NaN /\ (p = q \/ RLt(p, q))

\* floor of the square root of a natural number, by bisection on [lo, hi)
RECURSIVE Bisect(_, _, _)
Bisect(n, lo, hi) ==
    IF hi - lo <= 1 THEN lo
    ELSE LET mid == (lo + hi) \div 2
         IN  IF mid * mid <= n THEN Bisect(n, mid, hi) ELSE Bisect(n, lo, mid)
ISqrt(n) == Bisect(n, 0, IF n < 46340 THEN n + 1 ELSE 46340)

\* ::sqrt on the rationals that have a rational root; NaN on the others
RSqrt(q) ==
    IF q[2] = 0 THEN (IF q[1] > 0 THEN q ELSE NaN)
    ELSE IF q[1] < 0 THEN NaN
    ELSE LET n == ISqrt(q[1])
             d == ISqrt(q[2])
         IN  IF n * n = q[1] /\ d * d = q[2] THEN <<n, d>> ELSE NaN

----------------------------------------------------------------------------
(* ECEF::sq, ECEF::hypot *)

\* 2 x for x^2
sq_doubled(x) == RAdd(x, x)

sq(x) == RMul(x, x)

\* the negative root for the positive one
hypot_negative(x, y) == RNeg(RSqrt(RAdd(sq(x), sq(y))))

hypot(x, y) == RSqrt(RAdd(sq(x), sq(y)))

----------------------------------------------------------------------------
(* Angles *)

Ang(s, c) == <<s, c>>
Sin(t) == t[1]
Cos(t) == t[2]
Deg0 == Ang(Z(0), Z(1))
Deg90 == Ang(Z(1), Z(0))
DegM90 == Ang(Z(-1), Z(0))
Deg180 == Ang(Z(0), Z(-1))

\* ::atan2(y, x) as an angle; atan2(0, 0) = 0
Atan2(y, x) ==
    IF x = Z(0) /\ y = Z(0) THEN Deg0
    ELSE LET r == hypot(x, y)
         IN  Ang(RDiv(y, r), RDiv(x, r))

AngFinite(t) == IsFinite(t[1]) /\ IsFinite(t[2])

----------------------------------------------------------------------------
(* class ECEF *)

MaxRadFactor == 4

\* ECEF::ECEF(a, invf): the frozen parameters _a, _f, _e2, _e4, _e2m, _maxrad
Construct(a, invf) ==
    LET f == IF RLt(Z(0), invf) THEN RDiv(Z(1), invf) ELSE Z(0)
        e2 == RMul(f, RSub(Z(2), f))
    IN  [a |-> a, f |-> f, e2 |-> e2, e4 |-> sq(e2), e2m |-> RSub(Z(1), e2),
         maxrad |-> RMul(Z(MaxRadFactor), a)]

\* radius of curvature in the prime vertical at latitude lat
PrimeVertical(m, lat) ==
    RDiv(m.a, RSqrt(RSub(Z(1), RMul(m.e2, sq(Sin(lat))))))

\* ECEF::Forward
Forward(m, lat, lon, h) ==
    LET n == PrimeVertical(m, lat)
        xy == RMul(RAdd(n, h), Cos(lat))
    IN  [x |-> RMul(xy, Cos(lon)),
         y |-> RMul(xy, Sin(lon)),
         z |-> RMul(RAdd(RMul(n, m.e2m), h), Sin(lat))]

\* The latitudes strictly between the equator and the poles among which the
\* meridian equation is solved
GenericLats ==
    { Ang(Q(sg * t[1], t[3]), Q(t[2], t[3])) :
        sg \in {-1, 1}, t \in {<<3, 4, 5>>, <<4, 3, 5>>, <<21, 20, 29>>} }

NoSolution == [lat |-> Ang(NaN, NaN), h |-> NaN]

\* On the polar axis (R = 0): lat = +-90 by the sign of z, +90 at the center;
\* h follows from z and the polar radius of curvature.
AxisSolve(m, z) ==
    LET lat == IF RLt(z, Z(0)) THEN DegM90 ELSE Deg90
    IN  [lat |-> lat,
         h |-> RSub(RAbs(z), RMul(PrimeVertical(m, lat), m.e2m))]

\* In the equatorial plane (z = 0, R > 0).  Inside the focal region
\* R < a e2 the two solutions lat = +-phi with R = N(phi) e2 cos(phi) and
\* h = -N(phi) e2m exist, and the one with lat > 0 is taken; otherwise
\* lat = 0.
EquatorSolve(m, R) ==
    IF RLt(Z(0), m.e2) /\ RLt(R, RMul(m.a, m.e2))
    THEN LET c2 == RDiv(RMul(sq(R), m.e2m),
                        RMul(m.e2, RSub(RMul(sq(m.a), m.e2), sq(R))))
             lat == Ang(RSqrt(RSub(Z(1), c2)), RSqrt(c2))
         IN  [lat |-> lat, h |-> RNeg(RMul(PrimeVertical(m, lat), m.e2m))]
    ELSE [lat |-> Deg0, h |-> RSub(R, m.a)]

\* Off the axis and off the equatorial plane: the root phi of the meridian
\* equation z cos(phi) = (R - N(phi) e2 cos(phi)) sin(phi) on the side of z
\* whose height h = R / cos(phi) - N(phi) is not below -N(phi) e2m.
IsRoot(m, R, z, t) ==
    LET n == PrimeVertical(m, t)
    IN  /\ RSign(Sin(t)) = RSign(z)
        /\ RMul(z, Cos(t)) = RMul(RSub(R, RMul(RMul(n, m.e2), Cos(t))), Sin(t))
        /\ RLe(RNeg(RMul(n, m.e2m)), RSub(RDiv(R, Cos(t)), n))

GenericSolve(m, R, z) ==
    LET roots == {t \in GenericLats : IsRoot(m, R, z, t)}
    IN  IF roots = {} THEN NoSolution
        ELSE LET t == CHOOSE u \in roots : TRUE
             IN  [lat |-> t, h |-> RSub(RDiv(R, Cos(t)), PrimeVertical(m, t))]

\* The case dispatch on which of R and z vanish
MeridianSolve(m, R, z) ==
    IF R = Z(0) THEN AxisSolve(m, z)
    ELSE IF z = Z(0) THEN EquatorSolve(m, R)
    ELSE GenericSolve(m, R, z)

\* ECEF::Reverse, from its locals R = hypot(x, y) and r = hypot(R, z) on.
\* Beyond maxrad the problem is solved at the radius maxrad and the height is
\* scaled back up.
ReverseTail(m, x, y, z, R, r) ==
    LET lon == Atan2(y, x)
    IN  IF RLt(m.maxrad, r)
        THEN LET k == RDiv(r, m.maxrad)
                 sol == MeridianSolve(m, RDiv(R, k), RDiv(z, k))
             IN  [lat |-> sol.lat, lon |-> lon, h |-> RMul(sol.h, k)]
        ELSE LET sol == MeridianSolve(m, R, z)
             IN  [lat |-> sol.lat, lon |-> lon, h |-> sol.h]

\* ECEF::Reverse
Reverse(m, x, y, z) ==
    ReverseTail(m, x, y, z, hypot(x, y), hypot(hypot(x, y), z))

----------------------------------------------------------------------------
(* The inputs of the model *)

HBelow == 4
HBeyond == 2

Threads == {"t1", "t2"}

\* constructor arguments: two radii; invf <= 0 (a sphere), 2 and 7/2
Radii == {Z(2), Z(3)}
InvFs == {Z(-1), Z(0), Z(2), Q(7, 2)}
CtorArgs ==
    {c \in [a : Radii, invf : InvFs] : c.invf = Z(-1) => c.a = Z(2)}

Lons == {Deg0, Deg90, Deg180, DegM90,
         Ang(Q(3, 5), Q(4, 5)), Ang(Q(-3, 5), Q(-4, 5))}

\* the latitudes at which the prime vertical radius of the model is rational
GenLatsOf(m) == {t \in GenericLats : IsFinite(PrimeVertical(m, t))}
LatsOf(m) == {Deg0, Deg90, DegM90} \cup GenLatsOf(m)

\* the equatorial radii of the solutions lat = +-L, h = -N(L) e2m in the
\* plane z = 0, and the axis heights of the solutions lat = +-L, h = -N(L)
FocalRadii(m) ==
    {RMul(RMul(PrimeVertical(m, t), m.e2), Cos(t)) : t \in GenLatsOf(m)}
AxisHeights(m) ==
    {RMul(RMul(PrimeVertical(m, t), m.e2), RAbs(Sin(t))) : t \in GenLatsOf(m)}

\* heights: multiples of a/2 from -HBelow a/2 to beyond maxrad; the heights
\* that put the point on the axis, in the equatorial plane or at the center;
\* and at the poles the heights of the same points seen from the other pole
Heights(m, lat) ==
    LET n == PrimeVertical(m, lat)
        b == RMul(PrimeVertical(m, Deg90), m.e2m)
        steps == {RMul(Q(k, 2), m.a) :
                    k \in (0 - HBelow) .. (2 * MaxRadFactor + HBeyond)}
        base == steps \cup {RNeg(n), RNeg(RMul(n, m.e2m))}
                  \cup (IF lat = Deg0
                        THEN {RSub(RMul(Z(sg), R), m.a) :
                                sg \in {-1, 1}, R \in FocalRadii(m)}
                        ELSE IF lat \in {Deg90, DegM90}
                        THEN {RSub(z, b) : z \in AxisHeights(m)}
                        ELSE {})
    IN  IF lat \in {Deg90, DegM90}
        THEN base \cup {RSub(RMul(Z(-2), b), h) :
                          h \in {g \in base : RLt(g, RNeg(b))}}
        ELSE base

Geodetic(m) ==
    UNION { UNION { { [lat |-> lat, lon |-> lon, h |-> h] :
                        h \in Heights(m, lat) } : lon \in Lons } :
            lat \in LatsOf(m) }

\* The ECEF points of the model are the images of Geodetic(m) whose geodetic
\* solution has a rational sine and cosine: the axis, the equatorial plane
\* outside the focal region and at the focal radii, every image on a sphere,
\* and on an ellipsoid the images within maxrad of the (lat, h) with
\* h >= -N(lat) e2m.  (Within maxrad the distance r from the origin need not
\* be rational: Reverse only compares it with maxrad.)
InDomain(m, g, p) ==
    LET R == RSqrt(RAdd(sq(p.x), sq(p.y)))
    IN  \/ R = Z(0)
        \/ m.e2 = Z(0)
        \/ /\ p.z = Z(0)
           /\ (RLe(RMul(m.a, m.e2), R) \/ R \in FocalRadii(m))
        \/ /\ p.z # Z(0)
           /\ RLe(RAdd(sq(R), sq(p.z)), sq(m.maxrad))
           /\ RLe(RNeg(RMul(PrimeVertical(m, g.lat), m.e2m)), g.h)

----------------------------------------------------------------------------
(* The callers: each thread calls Forward on a geodetic point and Reverse   *)
(* on the result                                                            *)

VARIABLES ctor, model, pc, geo, ecef, loc, res, nsteps

vars == <<ctor, model, pc, geo, ecef, loc, res, nsteps>>

None == [none |-> TRUE]

\* one result shared by all callers, as a static would be
StoreShared(out, t, v) == [u \in DOMAIN out |-> v]

\* Forward and Reverse are const and write their results through the
\* references their caller passed: a call writes its own caller's values
StoreResult(out, t, v) == [out EXCEPT ![t] = v]

Init ==
    /\ ctor \in CtorArgs
    /\ model = Construct(ctor.a, ctor.invf)
    /\ pc = [t \in Threads |-> "idle"]
    /\ geo = [t \in Threads |-> None]
    /\ ecef = [t \in Threads |-> None]
    /\ loc = [t \in Threads |-> None]
    /\ res = [t \in Threads |-> None]
    /\ nsteps = [t \in Threads |-> 0]

\* a caller passes (lat, lon, h) to Forward
CallForward(t) ==
    /\ pc[t] = "idle"
    /\ \E g \in Geodetic(model) :
          geo' = [geo EXCEPT ![t] = g]
    /\ pc' = [pc EXCEPT ![t] = "forward"]
    /\ UNCHANGED <<ctor, model, ecef, loc, res, nsteps>>

\* The points that concurrent callers pass: along the x axis inside the
\* focal region, on the surface and twice beyond maxrad; along the polar
\* axis on the surface and beyond maxrad; and, where the model has one, a
\* latitude between the equator and the pole, on the surface and twice
\* beyond maxrad.
SharedPoints(m) ==
    LET far == RMul(Z(MaxRadFactor), m.a)
        heights == {Z(0), far, RAdd(far, m.a)}
    IN  { [lat |-> Deg0, lon |-> Deg0, h |-> h] :
            h \in heights \cup {RSub(R, m.a) : R \in FocalRadii(m)} }
          \cup { [lat |-> Deg90, lon |-> Deg0, h |-> h] : h \in {Z(0), far} }
          \cup { [lat |-> Ang(Q(4, 5), Q(3, 5)), lon |-> Deg180, h |-> h] :
                   h \in {g \in heights : m.e2 = Z(0)} }

CallForwardShared(t) ==
    /\ pc[t] = "idle"
    /\ \E g \in SharedPoints(model) :
          geo' = [geo EXCEPT ![t] = g]
    /\ pc' = [pc EXCEPT ![t] = "forward"]
    /\ UNCHANGED <<ctor, model, ecef, loc, res, nsteps>>

\* Forward writes x, y, z
DoForward(t) ==
    /\ pc[t] = "forward"
    /\ ecef' = StoreResult(ecef, t,
                           Forward(model, geo[t].lat, geo[t].lon, geo[t].h))
    /\ pc' = [pc EXCEPT ![t] = "forwarded"]
    /\ UNCHANGED <<ctor, model, geo, loc, res, nsteps>>

\* the caller passes the point to Reverse
CallReverse(t) ==
    /\ pc[t] = "forwarded"
    /\ InDomain(model, geo[t], ecef[t])
    /\ pc' = [pc EXCEPT ![t] = "reverse"]
    /\ nsteps' = [nsteps EXCEPT ![t] = 0]
    /\ UNCHANGED <<ctor, model, geo, ecef, loc, res>>

\* Reverse computes its locals R and r
ReverseHypot(t) ==
    /\ pc[t] = "reverse"
    /\ LET R == hypot(ecef[t].x, ecef[t].y)
       IN  loc' = [loc EXCEPT ![t] = [R |-> R, r |-> hypot(R, ecef[t].z)]]
    /\ pc' = [pc EXCEPT ![t] = "solve"]
    /\ nsteps' = [nsteps EXCEPT ![t] = @ + 1]
    /\ UNCHANGED <<ctor, model, geo, ecef, res>>

\* Reverse writes lat, lon, h
ReverseSolve(t) ==
    /\ pc[t] = "solve"
    /\ res' = StoreResult(res, t,
                          ReverseTail(model, ecef[t].x, ecef[t].y, ecef[t].z,
                                      loc[t].R, loc[t].r))
    /\ pc' = [pc EXCEPT ![t] = "reversed"]
    /\ nsteps' = [nsteps EXCEPT ![t] = @ + 1]
    /\ UNCHANGED <<ctor, model, geo, ecef, loc>>

\* the caller drops its values
Release(t) ==
    /\ pc[t] \in {"forwarded", "reversed"}
    /\ pc' = [pc EXCEPT ![t] = "idle"]
    /\ geo' = [geo EXCEPT ![t] = None]
    /\ ecef' = [ecef EXCEPT ![t] = None]
    /\ loc' = [loc EXCEPT ![t] = None]
    /\ res' = [res EXCEPT ![t] = None]
    /\ nsteps' = [nsteps EXCEPT ![t] = 0]
    /\ UNCHANGED <<ctor, model>>

\* one caller, every point of the model
Next ==
    \E t \in {"t1"} :
        \/ CallForward(t)
        \/ DoForward(t)
        \/ CallReverse(t)
        \/ ReverseHypot(t)
        \/ ReverseSolve(t)
        \/ Release(t)

Spec == Init /\ [][Next]_vars

\* concurrent callers of one model, without synchronization
NextShared ==
    \E t \in Threads :
        \/ CallForwardShared(t)
        \/ DoForward(t)
        \/ CallReverse(t)
        \/ ReverseHypot(t)
        \/ ReverseSolve(t)
        \/ Release(t)

SpecShared == Init /\ [][NextShared]_vars

----------------------------------------------------------------------------
(* Properties *)

Models == {Construct(a, i) : a \in Radii, i \in InvFs}

\* Forward on every geodetic point of the model
ImageOf ==
    [m \in Models |-> [g \in Geodetic(m) |-> Forward(m, g.lat, g.lon, g.h)]]

\* all geodetic points that Forward maps to p
Sols(m, p) == {g \in Geodetic(m) : ImageOf[m][g] = p}

\* those of the smallest |h|
Best(m, p) ==
    LET sols == Sols(m, p)
    IN  {g \in sols : \A g2 \in sols : RLe(RAbs(g.h), RAbs(g2.h))}

\* sqrt(x^2 + y^2) and sqrt(x^2 + y^2 + z^2), written out
PlaneNorm(p) == RSqrt(RAdd(RMul(p.x, p.x), RMul(p.y, p.y)))
SpaceNorm(p) ==
    RSqrt(RAdd(RAdd(RMul(p.x, p.x), RMul(p.y, p.y)), RMul(p.z, p.z)))

\* The round-off of a length at the radius r: none within maxrad, where the
\* model is exact; beyond maxrad the relative precision a / maxrad to which
\* Reverse works there.
RoundOff(m, r) ==
    IF RLt(m.maxrad, r) THEN RMul(r, RDiv(m.a, m.maxrad)) ELSE Z(0)
SameLength(m, r, u, v) == RLe(RAbs(RSub(u, v)), RoundOff(m, r))

Reversed(t) == pc[t] = "reversed"

PolicyOK(m, p, out) ==
    LET best == Best(m, p)
    IN  /\ \E g \in best : /\ g.lat = out.lat
                           /\ g.lon = out.lon
                           /\ SameLength(m, SpaceNorm(p), g.h, out.h)
        /\ (\E g1, g2 \in best : g1.lat # g2.lat)
              => (p.z = Z(0) /\ RLt(Z(0), Sin(out.lat)))
        /\ (\E g1, g2 \in best : /\ g1.lat = out.lat /\ g2.lat = out.lat
                                 /\ g1.lon # g2.lon)
              => (p.x = Z(0) /\ p.y = Z(0) /\ out.lon = Deg0)

\* C1: Reverse returns the solution of the lexicographic policy over all
\* (lat, lon, h) that Forward maps to (x, y, z): the smallest |h|; among
\* several latitudes (only when z = 0) the one with lat > 0; among several
\* longitudes (only when x = y = 0) lon = 0.
C1_Policy ==
    \A t \in Threads : Reversed(t) => PolicyOK(model, ecef[t], res[t])

\* C1 witness: Reverse has answered in the focal region of the equatorial
\* plane, where two latitudes have the smallest |h|
C1_Witness ==
    \E t \in Threads :
        /\ Reversed(t)
        /\ ecef[t].z = Z(0)
        /\ ecef[t].x # Z(0)
        /\ \E g1, g2 \in Best(model, ecef[t]) : g1.lat # g2.lat

\* -a e2m / sqrt(1 - e2 sin^2(lat)), written out
LowerBound(m, lat) ==
    RNeg(RDiv(RMul(m.a, m.e2m),
              RSqrt(RSub(Z(1), RMul(m.e2, RMul(Sin(lat), Sin(lat)))))))

\* the angle atan2(y, x) of the direction (x, y), 0 for (0, 0)
Direction(y, x) ==
    LET n == RSqrt(RAdd(RMul(x, x), RMul(y, y)))
    IN  IF n = Z(0) THEN Deg0 ELSE Ang(RDiv(y, n), RDiv(x, n))

\* |h| <= 5000 km on an ellipsoid of the size of WGS84 (a = 6378 km)
NearSurface(m, h) == RLe(RAbs(h), RMul(Q(5000, 6378), m.a))

RoundTrip(t) ==
    /\ res[t].lat = geo[t].lat
    /\ res[t].h = geo[t].h
    /\ (PlaneNorm(ecef[t]) # Z(0) => res[t].lon = geo[t].lon)

\* C2 as stated: Reverse after Forward returns (lat, lon, h) for every lat in
\* [-90, 90], lon in (-180, 180] and h within a few thousand km of the
\* surface, lon being compared off the polar axis only.
C2_RoundTripNearSurface ==
    \A t \in Threads :
        (Reversed(t) /\ NearSurface(model, geo[t].h)) => RoundTrip(t)

\* C2 amended: the same for the heights above the lower bound
\* -a e2m / sqrt(1 - e2 sin^2(lat)) of the heights that Reverse returns.
C2_RoundTripAboveBound ==
    \A t \in Threads :
        (/\ Reversed(t)
         /\ NearSurface(model, geo[t].h)
         /\ RLt(LowerBound(model, geo[t].lat), geo[t].h)) => RoundTrip(t)

\* C2 witness: a round trip from inside an ellipsoid, off the axis and off
\* the equatorial plane
C2_Witness ==
    \E t \in Threads :
        /\ Reversed(t)
        /\ model.e2 # Z(0)
        /\ NearSurface(model, geo[t].h)
        /\ RLt(LowerBound(model, geo[t].lat), geo[t].h)
        /\ RLt(geo[t].h, Z(0))
        /\ geo[t].lat \in GenericLats
        /\ geo[t].lon \notin {Deg0, Deg180}
        /\ RoundTrip(t)

\* C3: the height that Reverse returns is not below
\* -a (1 - e2) / sqrt(1 - e2 sin^2(lat)) at the latitude it returns.
C3_HeightLowerBound ==
    \A t \in Threads :
        Reversed(t) => RLe(LowerBound(model, res[t].lat), res[t].h)

\* C3 witness: the bound is attained in the focal region of an ellipsoid
C3_Witness ==
    \E t \in Threads :
        /\ Reversed(t)
        /\ model.e2 # Z(0)
        /\ ecef[t].z = Z(0)
        /\ PlaneNorm(ecef[t]) # Z(0)
        /\ res[t].lat \in GenericLats
        /\ res[t].h = LowerBound(model, res[t].lat)

AtCenter(t) ==
    Reversed(t) /\ ecef[t] = [x |-> Z(0), y |-> Z(0), z |-> Z(0)]

\* the polar semi-minor axis b = a (1 - f)
SemiMinor(m) == RMul(m.a, RSub(Z(1), m.f))

\* C4 as stated: Reverse(0, 0, 0) returns lat = 90, lon = 0 and
\* h = -a (1 - e2), and this h is the negative of the polar semi-minor axis.
C4_CenterAsStated ==
    \A t \in Threads :
        AtCenter(t) =>
            /\ res[t].lat = Deg90
            /\ res[t].lon = Deg0
            /\ res[t].h = RNeg(RMul(model.a, RSub(Z(1), model.e2)))
            /\ res[t].h = RNeg(SemiMinor(model))

\* C4 amended: Reverse(0, 0, 0) returns lat = 90, lon = 0 and h = -a (1 - f),
\* the negative of the polar semi-minor axis.
C4_CenterSemiMinor ==
    \A t \in Threads :
        AtCenter(t) =>
            /\ res[t].lat = Deg90
            /\ res[t].lon = Deg0
            /\ res[t].h = RNeg(SemiMinor(model))

\* C4 witness: Reverse has answered at the center of an ellipsoid
C4_Witness ==
    \E t \in Threads : AtCenter(t) /\ model.e2 # Z(0)

OnNorthAxis(t) ==
    /\ Reversed(t)
    /\ ecef[t].x = Z(0)
    /\ ecef[t].y = Z(0)
    /\ RLt(Z(0), ecef[t].z)

\* C5 as stated: Reverse(0, 0, z) for z > 0 returns lat = 90, lon = 0 and
\* h = z - a e2m.
C5_PoleAsStated ==
    \A t \in Threads :
        OnNorthAxis(t) =>
            /\ res[t].lat = Deg90
            /\ res[t].lon = Deg0
            /\ SameLength(model, ecef[t].z, res[t].h,
                          RSub(ecef[t].z, RMul(model.a, model.e2m)))

\* C5 amended: Reverse(0, 0, z) for z > 0 returns lat = 90, lon = 0 and
\* h = z - a (1 - f), z less the polar semi-minor axis.
C5_PoleSemiMinor ==
    \A t \in Threads :
        OnNorthAxis(t) =>
            /\ res[t].lat = Deg90
            /\ res[t].lon = Deg0
            /\ SameLength(model, ecef[t].z, res[t].h,
                          RSub(ecef[t].z, SemiMinor(model)))

\* C5 witness: Reverse has answered on the northern axis inside an
\* ellipsoid
C5_Witness ==
    \E t \in Threads :
        /\ OnNorthAxis(t)
        /\ model.e2 # Z(0)
        /\ RLt(res[t].h, Z(0))

InEquatorialPlane(t) ==
    /\ Reversed(t)
    /\ ecef[t].z = Z(0)
    /\ PlaneNorm(ecef[t]) # Z(0)

\* the solutions off the equator of a point, which an equatorial point has
\* in the focal region only
OffEquatorSols(m, p) == {g \in Sols(m, p) : Sin(g.lat) # Z(0)}

\* C6: in the equatorial plane off the axis Reverse returns lon = atan2(y, x)
\* and lat = 0 with h = hypot(x, y) - a, unless the point is in the focal
\* region, where the two symmetric solutions exist and the one with lat > 0
\* is returned.
C6_Equatorial ==
    \A t \in Threads :
        InEquatorialPlane(t) =>
            LET p == ecef[t]
                out == res[t]
                two == OffEquatorSols(model, p)
            IN  /\ out.lon = Direction(p.y, p.x)
                /\ two = {} =>
                      /\ out.lat = Deg0
                      /\ SameLength(model, PlaneNorm(p), out.h,
                                    RSub(PlaneNorm(p), model.a))
                /\ two # {} =>
                      /\ RLt(Z(0), Sin(out.lat))
                      /\ Forward(model, out.lat, out.lon, out.h) = p
                      /\ Forward(model, Ang(RNeg(Sin(out.lat)), Cos(out.lat)),
                                 out.lon, out.h) = p

\* C6 witness: Reverse has answered in the focal region, on a direction off
\* the x and y axes
C6_Witness ==
    \E t \in Threads :
        /\ InEquatorialPlane(t)
        /\ OffEquatorSols(model, ecef[t]) # {}
        /\ ecef[t].x # Z(0)
        /\ ecef[t].y # Z(0)

SphericalOK(t) ==
    /\ model.f = Z(0)
    /\ model.e2 = Z(0)
    /\ SameLength(model, SpaceNorm(ecef[t]), res[t].h,
                  RSub(SpaceNorm(ecef[t]), model.a))
    /\ res[t].lon = Direction(ecef[t].y, ecef[t].x)

\* C7 as stated: a model constructed with invf <= 0 has f = 0 and e2 = 0,
\* and its Reverse is h = sqrt(x^2 + y^2 + z^2) - a,
\* lat = atan2(z, hypot(x, y)), lon = atan2(y, x) for every (x, y, z).
C7_SphereAsStated ==
    \A t \in Threads :
        (Reversed(t) /\ RLe(ctor.invf, Z(0))) =>
            /\ SphericalOK(t)
            /\ res[t].lat = Direction(ecef[t].z, PlaneNorm(ecef[t]))

\* C7 amended: the same for every (x, y, z) but the center, where
\* lat = 90 and not atan2(0, 0) = 0.
C7_SphereOffCenter ==
    \A t \in Threads :
        (Reversed(t) /\ RLe(ctor.invf, Z(0))) =>
            /\ SphericalOK(t)
            /\ res[t].lat = IF AtCenter(t) THEN Deg90
                            ELSE Direction(ecef[t].z, PlaneNorm(ecef[t]))

\* C7 witness: Reverse on a model constructed with invf < 0, off the axis,
\* off the equatorial plane and off the coordinate planes
C7_Witness ==
    \E t \in Threads :
        /\ Reversed(t)
        /\ RLt(ctor.invf, Z(0))
        /\ ecef[t].x # Z(0)
        /\ ecef[t].y # Z(0)
        /\ ecef[t].z # Z(0)

Finite3(v) == \A i \in DOMAIN v : IF i = "h" \/ i \in {"x", "y", "z"}
                                  THEN IsFinite(v[i]) ELSE AngFinite(v[i])

BeyondMaxrad(m, p) == RLt(m.maxrad, SpaceNorm(p))

C9_SharedModel ==
    /\ model = Construct(ctor.a, ctor.invf)
    /\ \A t \in Threads :
          /\ pc[t] \in {"forwarded", "reverse", "solve", "reversed"} =>
                ecef[t] = Forward(Construct(ctor.a, ctor.invf),
                                  geo[t].lat, geo[t].lon, geo[t].h)
          /\ Reversed(t) =>
                res[t] = Reverse(Construct(ctor.a, ctor.invf),
                                 ecef[t].x, ecef[t].y, ecef[t].z)

\* C9 witness: a call of Reverse has returned while a call on another point
\* is between its two steps
C9_Witness ==
    /\ pc["t1"] = "reversed"
    /\ pc["t2"] = "solve"
    /\ ecef["t1"] # ecef["t2"]

\* q is p scaled up
ScaledUp(p, q) ==
    LET rp == SpaceNorm(p)
        rq == SpaceNorm(q)
    IN  /\ RLt(Z(0), rp)
        /\ RLt(rp, rq)
        /\ RMul(q.x, rp) = RMul(p.x, rq)
        /\ RMul(q.y, rp) = RMul(p.y, rq)
        /\ RMul(q.z, rp) = RMul(p.z, rq)

====
